---- MODULE Spec2Model ----
(***************************************************************************)
(* The Gecko transcript plugin of wavesurfer.js (class GeckoPlugin) as a   *)
(* state machine.  One plugin instance is constructed on a host page that  *)
(* owns one container element; the instance fetches a transcript, renders  *)
(* it as a table in the container, binds a click listener and answers time *)
(* queries.  Times are counted in quarter seconds, so every time is an     *)
(* exact binary fraction and Number.prototype.toFixed rounds it exactly.   *)
(***************************************************************************)
EXTENDS Integers, Sequences, FiniteSets, TLC

\* ------------------------------------------------------------------ bounds
MaxInits == 2        \* calls of init() in one behaviour
MaxMonologues == 2   \* monologues in a fetched document
MaxTime == 2         \* largest start/end time of a monologue (quarter seconds)
MaxTerms == 2        \* terms in a monologue

\* ------------------------------------------------------- JavaScript values
Null == [type |-> "null"]
Undefined == [type |-> "undefined"]
EmptyObject == [type |-> "object"]

DigitChars == <<"0", "1", "2", "3", "4", "5", "6", "7", "8", "9">>

\* String(n) for a non-negative integer, as the sequence of its characters
\* (what the assignments row.id = "..." + anno.id and dataset.ref = anno.id do).
RECURSIVE NumberToString(_)
NumberToString(n) ==
    IF n < 10 THEN <<DigitChars[n + 1]>>
    ELSE NumberToString(n \div 10) \o <<DigitChars[(n % 10) + 1]>>

NaN == [type |-> "NaN"]
Num(n) == [type |-> "number", value |-> n]

IsDigit(c) == \E d \in 1..10 : DigitChars[d] = c
DigitValue(c) == (CHOOSE d \in 1..10 : DigitChars[d] = c) - 1

\* the longest prefix of digits of a character sequence
RECURSIVE DigitPrefix(_)
DigitPrefix(s) ==
    IF s = <<>> \/ ~IsDigit(Head(s)) THEN <<>>
    ELSE <<Head(s)>> \o DigitPrefix(Tail(s))

RECURSIVE DigitsValue(_, _)
DigitsValue(s, acc) ==
    IF s = <<>> THEN acc
    ELSE DigitsValue(Tail(s), 10 * acc + DigitValue(Head(s)))

\* parseInt(s): the number written by the leading digits, NaN when there are none
parseInt(s) ==
    LET p == DigitPrefix(s)
    IN  IF p = <<>> THEN NaN ELSE Num(DigitsValue(p, 0))

\* x.toFixed(1) for x = q/4 >= 0: the nearest tenth, the larger one on a tie
toFixed1(q) ==
    LET tenths == (10 * q + 2) \div 4
    IN  NumberToString(tenths \div 10) \o <<".">> \o <<DigitChars[(tenths % 10) + 1]>>

\* array[index] of JavaScript: undefined outside the array and for NaN
ArrayGet(arr, index) ==
    IF index.type = "number" /\ (index.value + 1) \in DOMAIN arr
    THEN arr[index.value + 1]
    ELSE Undefined

\* ---------------------------------------------------------------- inputs
Times == 0..MaxTime
Term(t) == [type |-> "WORD", text |-> t]

\* term lists: a single term "hi", or a first term "bye" followed by filler
\* terms up to MaxTerms terms in all
TermLists ==
    { <<Term("hi")>>,
      [i \in 1..MaxTerms |-> IF i = 1 THEN Term("bye") ELSE Term("uh")] }

\* monologues the continuation can load: every field present, or only the
\* first term's text missing
LoadableMonologues ==
    [start : Times, end : Times, terms : TermLists] \cup
    { [start |-> 0, end |-> MaxTime, terms |-> <<[type |-> "WORD"]>>] }

\* monologues with start, end, terms or the first term missing
MalformedMonologues ==
    { [end |-> 0, terms |-> <<Term("hi")>>],
      [start |-> 0, terms |-> <<Term("hi")>>],
      [start |-> 0, end |-> MaxTime],
      [start |-> 0, end |-> MaxTime, terms |-> <<>>] }

Document(monologues) == [schemaVersion |-> "2.0", monologues |-> monologues]

\* parsed response bodies: every list of loadable monologues; lists in which
\* one malformed monologue follows loadable ones; a body without the list
JsonDocs ==
    { Document(m) :
        m \in UNION { [1..n -> LoadableMonologues] : n \in 0..MaxMonologues } } \cup
    { Document([i \in 1..n |-> IF i = n THEN bad
                               ELSE [start |-> 0, end |-> MaxTime, terms |-> <<Term("hi")>>]]) :
        n \in 1..MaxMonologues, bad \in MalformedMonologues } \cup
    { [schemaVersion |-> "2.0"] }

\* the documents the page's server answers with in the lifecycle runs: the
\* transcript of alternating monologues, each starting where the one before
\* it ends, cut after 0..MaxMonologues monologues; the document whose only
\* monologue lacks its text; the malformed ones; the one without a list
SampleMonologue(i) ==
    IF i % 2 = 1
    THEN [start |-> 0, end |-> MaxTime, terms |-> <<Term("hi")>>]
    ELSE [start |-> MaxTime, end |-> MaxTime,
          terms |-> [j \in 1..MaxTerms |-> IF j = 1 THEN Term("bye") ELSE Term("uh")]]

SampleDocs ==
    { Document([i \in 1..n |-> SampleMonologue(i)]) : n \in 0..MaxMonologues } \cup
    { Document(<<[start |-> 0, end |-> MaxTime, terms |-> <<[type |-> "WORD"]>>]>>) } \cup
    { doc \in JsonDocs :
        IF "monologues" \notin DOMAIN doc THEN TRUE
        ELSE \E k \in DOMAIN doc.monologues : doc.monologues[k] \in MalformedMonologues }

\* values of params.container: selectors, the element itself, null
ContainerParams ==
    { [kind |-> "string", value |-> "#annotations"],
      [kind |-> "string", value |-> "#missing"],
      [kind |-> "element", value |-> "annotations"],
      Null }

\* params objects: every container without url; a url with the selectors and
\* with null; the empty url
ParamSets ==
    { [container |-> c] : c \in ContainerParams } \cup
    { [container |-> c, url |-> "transcripts/doc.json"] :
        c \in { d \in ContainerParams : IF d = Null THEN TRUE ELSE d.kind = "string" } } \cup
    { [container |-> [kind |-> "string", value |-> "#annotations"], url |-> ""] }

\* ------------------------------------------------------------------ state
VARIABLES
    status,     \* "none" | "constructed" | "failed": outcome of new GeckoPlugin(params)
    params,     \* this.params
    container,  \* this.container
    data,       \* this.data
    table,      \* this.table
    onClick,    \* this._onClick
    children,   \* child nodes of the page's container element
    listeners,  \* "click" listeners attached to the container element, in order
    fetching,   \* fetch() promises not yet settled
    parsing,    \* Response.json() promises not yet settled
    inits,      \* calls of init() so far
    fresh,      \* objects (tables, listener closures) created so far
    destroyed,  \* destroy() has been called
    revived,    \* init() has been called after destroy()
    emitted,    \* notifications fired by the last step, in order
    fired,      \* names of all notifications fired so far
    thrown,     \* error raised (or rejection left unhandled) by the last step
    last,       \* the last step: its operation, arguments and return value
    phase       \* lifecycle state: "none" | "constructed" | "loading" | "ready" | "destroyed"

vars == <<status, params, container, data, table, onClick, children, listeners,
          fetching, parsing, inits, fresh, destroyed, revived, emitted, fired,
          thrown, last, phase>>

plugin == <<status, params, container, data, table, onClick>>
dom == <<children, listeners>>
teardown == <<destroyed, revived>>
network == <<fetching, parsing>>

\* the page: one element with id "annotations", holding a placeholder
ContainerElement == [el |-> "annotations"]
Placeholder == [node |-> "placeholder"]

\* ------------------------------------------------------------ constructor
\* document.querySelector(selector) on the page
querySelector(selector) ==
    IF selector = "#annotations" THEN ContainerElement ELSE Null

\* the container the constructor resolves from params.container
ResolveContainer(c) ==
    IF c = Null THEN Null
    ELSE IF c.kind = "string" THEN querySelector(c.value)
    ELSE ContainerElement

\* the constructor without its check of the resolved container
NoContainer_unchecked(c) == FALSE

\* !this.container
NoContainer(c) == c = Null

\* ------------------------------------------------------------------- init
\* init() fetching whether or not a url was given
HasUrl_always(p) == TRUE

\* this.params.url is truthy
HasUrl(p) == "url" \in DOMAIN p /\ p.url # ""

\* the object literal taking the text of the last term instead of the first
anno_lastTerm(mono, index) ==
    LET final == mono.terms[Len(mono.terms)]
        keys == {"id"} \cup ({"start", "end"} \cap DOMAIN mono)
                       \cup ({"text"} \cap DOMAIN final)
    IN  [k \in keys |->
            CASE k = "id" -> index
              [] k = "start" -> mono.start
              [] k = "end" -> mono.end
              [] k = "text" -> final.text]

\* the object literal built for one monologue; a property read from a missing
\* field is undefined, written here as an absent field
anno(mono, index) ==
    LET first == mono.terms[1]
        keys == {"id"} \cup ({"start", "end"} \cap DOMAIN mono)
                       \cup ({"text"} \cap DOMAIN first)
    IN  [k \in keys |->
            CASE k = "id" -> index
              [] k = "start" -> mono.start
              [] k = "end" -> mono.end
              [] k = "text" -> first.text]

\* jsondata["monologues"] mapped with anno raises a TypeError
TransformThrows(doc) ==
    IF "monologues" \notin DOMAIN doc THEN TRUE
    ELSE \E k \in DOMAIN doc.monologues :
            IF "terms" \notin DOMAIN doc.monologues[k] THEN TRUE
            ELSE doc.monologues[k].terms = <<>>

Transform(doc) ==
    [k \in DOMAIN doc.monologues |-> anno(doc.monologues[k], k - 1)]

\* ----------------------------------------------------------------- render
\* anno.start.toFixed(1) and anno.end.toFixed(1) can be evaluated
HasTimes(a) == {"start", "end"} \subseteq DOMAIN a

\* a body row: the tr's id suffix, the time cell's text, the text cell's
\* data-ref and text ("-" stands for the en dash)
rowOf(a) ==
    [id |-> NumberToString(a.id),
     time |-> toFixed1(a.start) \o <<"-">> \o toFixed1(a.end),
     ref |-> NumberToString(a.id),
     text |-> IF "text" \in DOMAIN a THEN a.text ELSE ""]

\* the tr appended before its cells are built
bareRow(a) == [id |-> NumberToString(a.id)]

RenderThrows(annotations) == \E k \in DOMAIN annotations : ~HasTimes(annotations[k])

\* the rows the forEach has appended to tbody when it returns or throws
BuildRows(annotations) ==
    IF RenderThrows(annotations)
    THEN LET bad == CHOOSE k \in DOMAIN annotations :
                       /\ ~HasTimes(annotations[k])
                       /\ \A j \in 1..(k - 1) : HasTimes(annotations[j])
         IN  [k \in 1..bad |->
                 IF k < bad THEN rowOf(annotations[k]) ELSE bareRow(annotations[k])]
    ELSE [k \in DOMAIN annotations |-> rowOf(annotations[k])]

NewTable(n, annotations) == [node |-> "table", id |-> n, rows |-> BuildRows(annotations)]

\* ------------------------------------------------------------ DOM helpers
RECURSIVE Without(_, _)
Without(seq, x) ==
    IF seq = <<>> THEN <<>>
    ELSE IF Head(seq) = x THEN Tail(seq)
    ELSE <<Head(seq)>> \o Without(Tail(seq), x)

Contains(seq, x) == \E i \in DOMAIN seq : seq[i] = x

\* EventTarget.removeEventListener: drops the listener if it is attached
removeEventListener(ls, fn) == Without(ls, fn)

\* ---------------------------------------------------------------- clicks
Select(a) == [name |-> "select", args |-> <<a.start, a.end>>]
Ready(d) == [name |-> "ready", args |-> <<d>>]

\* e.target.dataset of a click target
dataset(target) ==
    IF target.kind = "textTd" THEN [ref |-> target.ref] ELSE EmptyObject

\* the listener closure resolving the marker one segment too far
onClickEvents_offByOne(annotations, target) ==
    IF "ref" \in DOMAIN dataset(target)
    THEN LET index == parseInt(dataset(target).ref)
             annot == ArrayGet(annotations,
                               IF index = NaN THEN NaN ELSE Num(index.value + 1))
         IN  IF annot # Undefined THEN <<Select(annot)>> ELSE <<>>
    ELSE <<>>

\* the notifications one run of the listener closure fires
onClickEvents(annotations, target) ==
    IF "ref" \in DOMAIN dataset(target)
    THEN LET index == parseInt(dataset(target).ref)
             annot == ArrayGet(annotations, index)
         IN  IF annot # Undefined THEN <<Select(annot)>> ELSE <<>>
    ELSE <<>>

\* dispatch of one click to the attached listeners, in registration order
RECURSIVE Dispatch(_, _, _)
Dispatch(ls, annotations, target) ==
    IF ls = <<>> THEN <<>>
    ELSE onClickEvents(annotations, target) \o Dispatch(Tail(ls), annotations, target)

\* elements of a table a click can land on
TableTargets(t) ==
    { [table |-> t.id, kind |-> "th"] } \cup
    { [table |-> t.id, kind |-> "tr", row |-> k] : k \in DOMAIN t.rows } \cup
    UNION { { [table |-> t.id, kind |-> "timeTd", row |-> k],
              [table |-> t.id, kind |-> "textTd", row |-> k, ref |-> t.rows[k].ref] } :
            k \in { j \in DOMAIN t.rows : "ref" \in DOMAIN t.rows[j] } }

Tables(nodes) == { nodes[i] : i \in { j \in DOMAIN nodes : nodes[j].node = "table" } }

\* the container, its placeholder, the tables in it and the table this.table holds
ClickTargets ==
    { [kind |-> "container"] } \cup
    { [kind |-> "placeholder"] : i \in { j \in DOMAIN children : children[j] = Placeholder } } \cup
    UNION { TableTargets(t) : t \in Tables(children) \cup (IF table = Undefined THEN {} ELSE {table}) }

\* the click event reaches the container's listeners
Bubbles(target) ==
    \/ target.kind \in {"container", "placeholder"}
    \/ \E t \in Tables(children) : t.id = target.table

\* ---------------------------------------------------------------- queries
\* the scan with the end of the interval excluded
RECURSIVE getRenderedAnnotation_openEnd(_, _)
getRenderedAnnotation_openEnd(annotations, time) ==
    IF annotations = <<>> THEN Undefined
    ELSE IF Head(annotations).start <= time /\ Head(annotations).end > time
         THEN Head(annotations)
         ELSE getRenderedAnnotation_openEnd(Tail(annotations), time)

RECURSIVE getRenderedAnnotation(_, _)
getRenderedAnnotation(annotations, time) ==
    IF annotations = <<>> THEN Undefined
    ELSE IF Head(annotations).start <= time /\ Head(annotations).end >= time
         THEN Head(annotations)
         ELSE getRenderedAnnotation(Tail(annotations), time)

\* document.getElementById("wavesurfer-annotation-" + annotation.id)
getAnnotationNode(nodes, annotation) ==
    LET hits == { r \in UNION { { t.rows[k] : k \in DOMAIN t.rows } : t \in Tables(nodes) } :
                     r.id = NumberToString(annotation.id) }
    IN  IF hits = {} THEN Null ELSE CHOOSE r \in hits : TRUE

QueryTimes == 0..(MaxTime + 1)

\* ---------------------------------------------------------------- actions
Init ==
    /\ status = "none"
    /\ params = Null
    /\ container = Null
    /\ data = Null
    /\ table = Undefined
    /\ onClick = Undefined
    /\ children = <<Placeholder>>
    /\ listeners = <<>>
    /\ fetching = 0
    /\ parsing = 0
    /\ inits = 0
    /\ fresh = 0
    /\ destroyed = FALSE
    /\ revived = FALSE
    /\ emitted = <<>>
    /\ fired = {}
    /\ thrown = "none"
    /\ last = [op |-> "none"]
    /\ phase = "none"

\* the step fired no notification; the step raised nothing
Silent == emitted' = <<>> /\ UNCHANGED fired
NoThrow == thrown' = "none"

\* new GeckoPlugin(params, ws)
Construct(p) ==
    /\ status = "none"
    /\ params' = p
    /\ data' = Null
    /\ container' = ResolveContainer(p.container)
    /\ IF NoContainer(container')
       THEN status' = "failed" /\ thrown' = "Error" /\ UNCHANGED phase
       ELSE status' = "constructed" /\ NoThrow /\ phase' = "constructed"
    /\ last' = [op |-> "construct"]
    /\ Silent
    /\ UNCHANGED <<table, onClick, dom, network, inits, fresh, teardown>>

\* init()
init ==
    /\ status = "constructed"
    /\ inits < MaxInits
    /\ inits' = inits + 1
    /\ data' = [media |-> EmptyObject, annotations |-> <<>>]
    /\ fetching' = IF HasUrl(params) THEN fetching + 1 ELSE fetching
    /\ phase' = IF HasUrl(params) THEN "loading" ELSE phase
    /\ last' = [op |-> "init"]
    /\ Silent /\ NoThrow
    /\ revived' = (revived \/ destroyed)
    /\ UNCHANGED <<status, params, container, table, onClick, dom, parsing,
                   fresh, destroyed>>

\* fetch() fulfils: the first callback calls data.json()
FetchResolve ==
    /\ fetching > 0
    /\ fetching' = fetching - 1
    /\ parsing' = parsing + 1
    /\ last' = [op |-> "fetchResolve"]
    /\ Silent /\ NoThrow
    /\ UNCHANGED <<plugin, dom, inits, fresh, teardown, phase>>

\* fetch() rejects (network failure): nothing handles the rejection
FetchReject ==
    /\ fetching > 0
    /\ fetching' = fetching - 1
    /\ thrown' = "NetworkError"
    /\ last' = [op |-> "fetchReject"]
    /\ Silent
    /\ UNCHANGED <<plugin, dom, parsing, inits, fresh, teardown, phase>>

\* data.json() rejects (unparsable body)
JsonReject ==
    /\ parsing > 0
    /\ parsing' = parsing - 1
    /\ thrown' = "SyntaxError"
    /\ last' = [op |-> "jsonReject"]
    /\ Silent
    /\ UNCHANGED <<plugin, dom, fetching, inits, fresh, teardown, phase>>

\* data.json() fulfils and the mapping of the monologues throws
LoadThrowsInTransform(doc) ==
    /\ parsing > 0
    /\ TransformThrows(doc)
    /\ parsing' = parsing - 1
    /\ thrown' = "TypeError"
    /\ last' = [op |-> "load", doc |-> doc]
    /\ Silent
    /\ UNCHANGED <<plugin, dom, fetching, inits, fresh, teardown, phase>>

\* render emptying the container before it builds the rows
LoadThrowsInRender_clearsFirst(doc) ==
    /\ parsing > 0
    /\ ~TransformThrows(doc)
    /\ RenderThrows(Transform(doc))
    /\ parsing' = parsing - 1
    /\ fresh' = fresh + 1
    /\ table' = NewTable(fresh + 1, Transform(doc))
    /\ children' = <<>>
    /\ thrown' = "TypeError"
    /\ last' = [op |-> "load", doc |-> doc]
    /\ Silent
    /\ UNCHANGED <<status, params, container, data, onClick, listeners, fetching,
                   inits, teardown, phase>>

\* data.json() fulfils and render throws while building the rows: this.table
\* already holds the new table, the container is not yet touched
LoadThrowsInRender(doc) ==
    /\ parsing > 0
    /\ ~TransformThrows(doc)
    /\ RenderThrows(Transform(doc))
    /\ parsing' = parsing - 1
    /\ fresh' = fresh + 1
    /\ table' = NewTable(fresh + 1, Transform(doc))
    /\ thrown' = "TypeError"
    /\ last' = [op |-> "load", doc |-> doc]
    /\ Silent
    /\ UNCHANGED <<status, params, container, data, onClick, dom, fetching,
                   inits, teardown, phase>>

\* render that appends the new table and keeps what the container held
renderInto_appends(nodes, t) == Append(nodes, t)

\* this.container.innerHTML = ""; this.container.appendChild(table)
renderInto(nodes, t) == <<t>>

\* bindClick() that builds the closure and never attaches it
addEventListener_dropped(ls, fn) == ls

\* this.container.addEventListener("click", fn)
addEventListener(ls, fn) == IF Contains(ls, fn) THEN ls ELSE Append(ls, fn)

\* data.json() fulfils and the continuation runs to its end:
\* transform, render, store, bindClick, fireEvent("ready")
LoadCompletes(doc) ==
    /\ parsing > 0
    /\ ~TransformThrows(doc)
    /\ ~RenderThrows(Transform(doc))
    /\ parsing' = parsing - 1
    /\ fresh' = fresh + 2
    /\ table' = NewTable(fresh + 1, Transform(doc))
    /\ children' = renderInto(children, table')
    /\ data' = [data EXCEPT !.annotations = Transform(doc)]
    /\ onClick' = [fn |-> fresh + 2]
    /\ listeners' = addEventListener(listeners, onClick')
    /\ emitted' = <<Ready(data')>>
    /\ fired' = fired \cup {"ready"}
    /\ last' = [op |-> "load", doc |-> doc]
    /\ phase' = "ready"
    /\ NoThrow
    /\ UNCHANGED <<status, params, container, fetching, inits, teardown>>

\* destroy()
destroy ==
    /\ status = "constructed"
    /\ destroyed' = TRUE
    /\ listeners' = removeEventListener(listeners, onClick)
    /\ IF table = Undefined
       THEN thrown' = "TypeError" /\ UNCHANGED children
       ELSE IF ~Contains(children, table)
            THEN thrown' = "NotFoundError" /\ UNCHANGED children
            ELSE NoThrow /\ children' = Without(children, table)
    /\ last' = [op |-> "destroy"]
    /\ phase' = "destroyed"
    /\ Silent
    /\ UNCHANGED <<plugin, network, inits, fresh, revived>>

\* this.data.annotations as the listener closure reads it
Annotations == IF data = Null THEN <<>> ELSE data.annotations

EventNames(evs) == { evs[i].name : i \in DOMAIN evs }

\* the user clicks an element of the page
Click(target) ==
    /\ target \in ClickTargets
    /\ emitted' = IF Bubbles(target)
                  THEN Dispatch(listeners, Annotations, target)
                  ELSE <<>>
    /\ fired' = fired \cup EventNames(emitted')
    /\ last' = [op |-> "click", target |-> target]
    /\ NoThrow
    /\ UNCHANGED <<plugin, dom, network, inits, fresh, teardown, phase>>

\* the host calls getRenderedAnnotation(time)
RenderedAnnotation(time) ==
    /\ status = "constructed"
    /\ IF data = Null
       THEN /\ thrown' = "TypeError"
            /\ last' = [op |-> "getRenderedAnnotation", time |-> time]
       ELSE /\ NoThrow
            /\ last' = [op |-> "getRenderedAnnotation", time |-> time,
                         result |-> getRenderedAnnotation(data.annotations, time)]
    /\ Silent
    /\ UNCHANGED <<plugin, dom, network, inits, fresh, teardown, phase>>

\* the host calls getAnnotationNode(annotation) with a stored segment
AnnotationNode(annotation) ==
    /\ status = "constructed"
    /\ data # Null
    /\ Contains(data.annotations, annotation)
    /\ last' = [op |-> "getAnnotationNode", annotation |-> annotation,
                 result |-> getAnnotationNode(children, annotation)]
    /\ Silent /\ NoThrow
    /\ UNCHANGED <<plugin, dom, network, inits, fresh, teardown, phase>>

\* the parsed bodies by the way the continuation ends on them
TransformFailDocs == { doc \in JsonDocs : TransformThrows(doc) }
RenderFailDocs ==
    { doc \in JsonDocs \ TransformFailDocs : RenderThrows(Transform(doc)) }
GoodDocs == (JsonDocs \ TransformFailDocs) \ RenderFailDocs

\* the bodies that can finish parsing now: none unless a json() promise is pending
Arrived(docs) == IF parsing > 0 THEN docs ELSE {}

\* the lifecycle of one plugin instance on the sample documents
Next ==
    \/ \E p \in ParamSets : Construct(p)
    \/ init
    \/ FetchResolve
    \/ FetchReject
    \/ JsonReject
    \/ \E doc \in Arrived(SampleDocs \cap TransformFailDocs) : LoadThrowsInTransform(doc)
    \/ \E doc \in Arrived(SampleDocs \cap RenderFailDocs) : LoadThrowsInRender(doc)
    \/ \E doc \in Arrived(SampleDocs \cap GoodDocs) : LoadCompletes(doc)
    \/ destroy
    \/ \E target \in ClickTargets : Click(target)
    \/ \E time \in QueryTimes : RenderedAnnotation(time)
    \/ \E a \in { Annotations[i] : i \in DOMAIN Annotations } : AnnotationNode(a)

Spec == Init /\ [][Next]_vars

\* One load on every document of the bounds: the plugin has been constructed
\* on the example page and init() has issued its fetch, whose response arrived.
LoadInit ==
    /\ status = "constructed"
    /\ params = [container |-> [kind |-> "string", value |-> "#annotations"],
                 url |-> "transcripts/doc.json"]
    /\ container = ContainerElement
    /\ data = [media |-> EmptyObject, annotations |-> <<>>]
    /\ table = Undefined
    /\ onClick = Undefined
    /\ children = <<>>
    /\ listeners = <<>>
    /\ fetching = 0
    /\ parsing = 1
    /\ inits = 1
    /\ fresh = 0
    /\ destroyed = FALSE
    /\ revived = FALSE
    /\ emitted = <<>>
    /\ fired = {}
    /\ thrown = "none"
    /\ last = [op |-> "fetchResolve"]
    /\ phase = "loading"

LoadNext ==
    \/ JsonReject
    \/ \E doc \in Arrived(TransformFailDocs) : LoadThrowsInTransform(doc)
    \/ \E doc \in Arrived(RenderFailDocs) : LoadThrowsInRender(doc)
    \/ \E doc \in Arrived(GoodDocs) : LoadCompletes(doc)
    \/ \E time \in QueryTimes : RenderedAnnotation(time)

LoadSpec == LoadInit /\ [][LoadNext]_vars

\* ================================================================ claims
EmittedNames == { emitted[i].name : i \in DOMAIN emitted }

\* the body rows of the table the container shows (none without a table)
RowsShown ==
    IF Tables(children) = {} THEN <<>>
    ELSE (CHOOSE t \in Tables(children) : TRUE).rows

\* C1: once destroy() has been called (and init() is not called again), no
\* later click or load completion fires a "select" notification.
C1_NoSelectAfterDestroy ==
    (destroyed /\ ~revived) => "select" \notin EmittedNames

\* C2: in the ready state a click on the rendered text cell of segment i fires
\* "select" with (annotations[i].start, annotations[i].end) and nothing else;
\* a click on a target without marker, or whose marker names no stored
\* segment, fires nothing and changes no state of the plugin or the page.
C2_ClickSelectsItsSegment ==
    [][ last'.op = "click" =>
          LET target == last'.target
              rendered == target.kind = "textTd" /\ Bubbles(target)
              resolves == target.kind = "textTd" /\ target.row \in DOMAIN Annotations
          IN  /\ (phase = "ready" /\ rendered) =>
                    /\ emitted' # <<>>
                    /\ \A i \in DOMAIN emitted' :
                          emitted'[i] = [name |-> "select",
                                         args |-> <<Annotations[target.row].start,
                                                    Annotations[target.row].end>>]
              /\ ~resolves =>
                    /\ emitted' = <<>>
                    /\ UNCHANGED <<plugin, dom, network, fired>> ]_vars

C2_Witness ==
    /\ phase = "ready"
    /\ last.op = "click"
    /\ last.target.kind = "textTd"
    /\ last.target.row = 2
    /\ Len(Annotations) = 2
    /\ Annotations[1].start # Annotations[2].start
    /\ emitted = <<[name |-> "select",
                    args |-> <<Annotations[2].start, Annotations[2].end>>]>>

\* C3: whenever "ready" is fired the same continuation has transformed,
\* rendered and bound: the container holds exactly the table of the loaded
\* segments, data.annotations is the list of the loaded document's segments,
\* the click listener is attached and the payload is this.data; and no
\* "select" is fired before the first "ready".
C3_ReadyAfterRenderAndBind ==
    /\ "ready" \in EmittedNames =>
          /\ last.op = "load"
          /\ children = <<table>>
          /\ Len(table.rows) = Len(last.doc.monologues)
          /\ Len(data.annotations) = Len(last.doc.monologues)
          /\ \A k \in DOMAIN data.annotations :
                /\ data.annotations[k].start = last.doc.monologues[k].start
                /\ data.annotations[k].end = last.doc.monologues[k].end
                /\ parseInt(table.rows[k].ref) = Num(data.annotations[k].id)
          /\ Contains(listeners, onClick)
          /\ emitted = <<[name |-> "ready", args |-> <<data>>]>>
    /\ "select" \in fired => "ready" \in fired

C3_Witness ==
    /\ "ready" \in EmittedNames
    /\ Len(data.annotations) = 2
    /\ Len(RowsShown) = 2
    /\ Contains(listeners, onClick)

\* C4: getRenderedAnnotation(t) returns the first stored segment, in list
\* order, with start <= t <= end, and undefined exactly when no stored segment
\* contains t; of two segments sharing the boundary t the earlier is returned.
C4_FirstContainingSegment ==
    (last.op = "getRenderedAnnotation" /\ thrown = "none") =>
        LET hits == { k \in DOMAIN Annotations :
                        Annotations[k].start <= last.time /\ last.time <= Annotations[k].end }
        IN  IF hits = {}
            THEN last.result = Undefined
            ELSE \E k \in hits :
                    /\ \A j \in hits : k <= j
                    /\ last.result = Annotations[k]
                    /\ last.result.id = k - 1

C4_Witness ==
    /\ last.op = "getRenderedAnnotation"
    /\ Len(Annotations) = 2
    /\ Annotations[1].start < Annotations[1].end
    /\ Annotations[1].end = Annotations[2].start
    /\ Annotations[2].start < Annotations[2].end
    /\ last.time = Annotations[1].end
    /\ last.result = Annotations[1]

MonologueFieldMissing(doc) ==
    IF "monologues" \notin DOMAIN doc THEN FALSE
    ELSE \E k \in DOMAIN doc.monologues :
            ~({"start", "end", "terms"} \subseteq DOMAIN doc.monologues[k])

LoadFailed(step) ==
    IF step.op = "load" THEN MonologueFieldMissing(step.doc)
    ELSE step.op \in {"fetchReject", "jsonReject"}

\* C6: a failed load (network failure, unparsable response, monologue with a
\* missing field) fires nothing and leaves the lifecycle state,
\* data.annotations, the container's content and the bound listeners as they
\* were; while no load has succeeded the plugin has fired nothing, stores no
\* segment, shows no table and has no click listener.
C6_FailedLoadIsSilent ==
    /\ [][ LoadFailed(last') =>
             /\ emitted' = <<>>
             /\ thrown' # "none"
             /\ UNCHANGED <<phase, fired, data, children, listeners, onClick>> ]_vars
    /\ []( "ready" \notin fired =>
             /\ fired = {}
             /\ phase # "ready"
             /\ Annotations = <<>>
             /\ Tables(children) = {}
             /\ listeners = <<>> )

C6_Witness ==
    /\ last.op = "load"
    /\ MonologueFieldMissing(last.doc)
    /\ thrown = "TypeError"
    /\ table # Undefined
    /\ children = <<Placeholder>>
    /\ phase = "loading"
    /\ fetching + parsing = 0

\* params.container names no element: a selector matching nothing, or null
Unresolvable(c) ==
    IF c = Null THEN TRUE ELSE c.kind = "string" /\ c.value # "#annotations"

\* C7: construction with an unresolvable container fails at once with an
\* Error, and no fetch, table, listener or notification ever follows;
\* construction with a resolvable container succeeds and leaves the plugin
\* without data.
C7_ConstructionFailsFast ==
    status # "none" =>
        IF Unresolvable(params.container)
        THEN /\ status = "failed"
             /\ last.op = "construct" => thrown = "Error"
             /\ inits = 0 /\ fetching = 0 /\ parsing = 0
             /\ data = Null
             /\ table = Undefined /\ Tables(children) = {}
             /\ listeners = <<>>
             /\ fired = {}
        ELSE /\ status = "constructed"
             /\ last.op = "construct" =>
                   /\ thrown = "none"
                   /\ data = Null
                   /\ fetching = 0
                   /\ table = Undefined

C7_Witness ==
    /\ status = "failed"
    /\ params.container = [kind |-> "string", value |-> "#missing"]
    /\ "url" \in DOMAIN params
    /\ last.op = "click"

\* C8: with the url parameter absent no fetch is ever issued and no data is
\* loaded: after any init() calls and clicks the segment list is empty, no
\* table has been rendered, no click listener bound, nothing fired.
C8_NoUrlNoLoad ==
    (status = "constructed" /\ "url" \notin DOMAIN params) =>
        /\ fetching = 0 /\ parsing = 0
        /\ Annotations = <<>>
        /\ table = Undefined /\ Tables(children) = {}
        /\ onClick = Undefined /\ listeners = <<>>
        /\ fired = {}

C8_Witness ==
    /\ status = "constructed"
    /\ "url" \notin DOMAIN params
    /\ inits = MaxInits
    /\ data = [media |-> EmptyObject, annotations |-> <<>>]
    /\ last.op = "click"

\* C9: getRenderedAnnotation(t) raises in no lifecycle state of a constructed
\* plugin and returns a stored segment or undefined.
C9_QueryNeverRaises ==
    last.op = "getRenderedAnnotation" =>
        /\ thrown = "none"
        /\ last.result = Undefined \/ Contains(Annotations, last.result)

\* C10: once a completed load has stored the segment list, no later step
\* (click, query, destroy, init, load completion) changes it.
C10_StoredListNeverChanges ==
    [][ "ready" \in fired => Annotations' = Annotations ]_vars

C12_RowsMatchAnnotations ==
    (status = "constructed" /\ ~destroyed) =>
        /\ Len(RowsShown) = Len(Annotations)
        /\ \A k \in DOMAIN RowsShown :
              /\ RowsShown[k].ref = NumberToString(k - 1)
              /\ parseInt(RowsShown[k].ref) = Num(Annotations[k].id)

\* C13: at most one click listener of the plugin is attached to the container
\* at any time, this._onClick refers to it, and one click emits "select" at
\* most once.
C13_SingleClickListener ==
    /\ Len(listeners) <= 1
    /\ listeners # <<>> => listeners = <<onClick>>
    /\ last.op = "click" => Len(emitted) <= 1

\* C14: destroy() raises in no lifecycle state of a constructed plugin and
\* leaves the container without a table and without a click listener of the
\* plugin.
C14_DestroyNeverRaises ==
    last.op = "destroy" =>
        /\ thrown = "none"
        /\ Tables(children) = {}
        /\ listeners = <<>>

====
